---- MODULE Spec2Model ----
(***************************************************************************)
(* A model of the input-interpretation core of the viewer:                 *)
(*   - TouchService  (src/src/viewer/TouchService.ts): the single-touch    *)
(*     and pinch streams and the activation gate;                          *)
(*   - ScrollZoomHandler (src/unnamed/part_000): wheel zoom.               *)
(* Every DOM occurrence is one action; the action runs all listeners the   *)
(* streams have attached, in the order the DOM invokes them (listeners     *)
(* attached while an occurrence is dispatched do not see that occurrence). *)
(***************************************************************************)
EXTENDS Integers, Sequences, FiniteSets, TLC

(***************************************************************************)
(* JavaScript numbers.  A number is an exact rational num/den (den > 0,    *)
(* lowest terms), NaN, or the value undefined (a field never assigned).    *)
(***************************************************************************)
RECURSIVE GCD(_, _)
GCD(a, b) == IF b = 0 THEN a ELSE GCD(b, a % b)

IntAbs(n) == IF n < 0 THEN -n ELSE n

Rat(n, d) ==
    LET g == GCD(IntAbs(n), d)
    IN  [kind |-> "number", num |-> n \div g, den |-> d \div g]

Number(n) == [kind |-> "number", num |-> n, den |-> 1]

NaN == [kind |-> "NaN", num |-> 0, den |-> 1]

undefined == [kind |-> "undefined", num |-> 0, den |-> 1]

null == [null |-> TRUE]

IsNumber(a) == a.kind = "number"

\* a + b
Plus(a, b) ==
    IF IsNumber(a) /\ IsNumber(b)
    THEN Rat(a.num * b.den + b.num * a.den, a.den * b.den)
    ELSE NaN

\* a - b
Minus(a, b) ==
    IF IsNumber(a) /\ IsNumber(b)
    THEN Rat(a.num * b.den - b.num * a.den, a.den * b.den)
    ELSE NaN

\* a * b
Times(a, b) ==
    IF IsNumber(a) /\ IsNumber(b)
    THEN Rat(a.num * b.num, a.den * b.den)
    ELSE NaN

\* a / b, for a divisor other than zero
Over(a, b) ==
    IF IsNumber(a) /\ IsNumber(b) /\ b.num # 0
    THEN IF b.num > 0
         THEN Rat(a.num * b.den, a.den * b.num)
         ELSE Rat(-(a.num * b.den), a.den * (-b.num))
    ELSE NaN

LessThan(a, b) == a.num * b.den < b.num * a.den

MathMin(a, b) ==
    IF IsNumber(a) /\ IsNumber(b) THEN (IF LessThan(b, a) THEN b ELSE a) ELSE NaN

MathMax(a, b) ==
    IF IsNumber(a) /\ IsNumber(b) THEN (IF LessThan(a, b) THEN b ELSE a) ELSE NaN

MathAbs(a) ==
    IF IsNumber(a) THEN [a EXCEPT !.num = IntAbs(a.num)] ELSE NaN

\* Math.sqrt on the integers that are perfect squares (every squared
\* distance between two contacts of TouchPool is one).
MathSqrt(a) ==
    IF IsNumber(a) /\ a.den = 1 /\ a.num >= 0
    THEN Number(CHOOSE k \in 0..a.num : k * k = a.num)
    ELSE NaN

(***************************************************************************)
(* Touches and touch events.                                               *)
(***************************************************************************)
Touch(id, cx, cy, px, py, sx, sy) ==
    [identifier |-> id, clientX |-> cx, clientY |-> cy,
     pageX |-> px, pageY |-> py, screenX |-> sx, screenY |-> sy]

\* The contacts the environment reports.  All pairwise client distances are
\* integers; the page and screen offsets differ from contact to contact.
TouchPool ==
    << Touch(0, 0, 0, 100, 100, 50, 60),
       Touch(1, 10, 0, 105, 98, 60, 61),
       Touch(2, 20, 0, 120, 100, 75, 60),
       Touch(3, 3, 0, 3, 7, 53, 60),
       Touch(4, 10, 24, 110, 124, 10, 24) >>

\* The largest number of simultaneous contacts an occurrence reports.
MaxTouches == 3

\* The count up to which the qualifying moves of a session are counted.
MaxSeen == 2

PoolIndex == 1..Len(TouchPool)

\* A list of k contacts whose content no handler reads.
TouchesOfLen(k) == [i \in 1..k |-> TouchPool[((i - 1) % Len(TouchPool)) + 1]]

\* The pairs of contacts a two-contact touchmove reports: a pair in both
\* orders, pairs that share a contact, pairs with an odd and with an
\* off-axis difference.
PairIndex == {<<1, 2>>, <<2, 1>>, <<1, 3>>, <<4, 1>>, <<5, 4>>, <<2, 5>>}

\* The contacts a one-contact touchmove reports: two that lie close and one
\* far from both.
SingleIndex == {1, 2, 4}

\* The touch lists of the touchmove occurrences that report one contact or
\* two contacts, all on the target.
SingleTouchLists == {<<TouchPool[i]>> : i \in SingleIndex}

PairTouchLists == {<<TouchPool[p[1]], TouchPool[p[2]]>> : p \in PairIndex}

\* The touch lists of the occurrences whose contacts no handler reads.
ChangeTouchLists == {TouchesOfLen(k) : k \in 0..MaxTouches}

\* targetTouches is the sub-list of touches on the event's target.
TouchEvent(type, touches, n) ==
    [type |-> type, touches |-> touches, targetTouches |-> SubSeq(touches, 1, n)]

\* The occurrences of a type with every pair of counts.
TouchEvents(type) ==
    {TouchEvent(type, p[1], p[2]) :
        p \in {q \in ChangeTouchLists \X (0..MaxTouches) : q[2] <= Len(q[1])}}

\* The touchmove occurrences: every pair of counts, and every contact and
\* pair of contacts above.
TouchMoveEvents ==
    TouchEvents("touchmove")
    \cup {TouchEvent("touchmove", l, Len(l)) : l \in SingleTouchLists \cup PairTouchLists}

(***************************************************************************)
(* TouchMove and the single-touch fold.                                    *)
(***************************************************************************)
TouchMove(touch) ==
    IF touch = null
    THEN [movementX |-> Number(0), movementY |-> Number(0),
          identifier |-> undefined,
          clientX |-> undefined, clientY |-> undefined,
          pageX |-> undefined, pageY |-> undefined,
          screenX |-> undefined, screenY |-> undefined]
    ELSE [movementX |-> Number(0), movementY |-> Number(0),
          identifier |-> Number(touch.identifier),
          clientX |-> Number(touch.clientX), clientY |-> Number(touch.clientY),
          pageX |-> Number(touch.pageX), pageY |-> Number(touch.pageY),
          screenX |-> Number(touch.screenX), screenY |-> Number(touch.screenY)]

\* The seed of the scan of _singleTouchMove$.
SingleTouchMoveSeed == TouchMove(null)

\* Fault: the movement is taken from the client position.
TouchMoveOperationClient(te, previous) ==
    LET touch == te.touches[1]
        current == TouchMove(touch)
    IN  [current EXCEPT
            !.movementX = Minus(Number(touch.clientX), previous.clientX),
            !.movementY = Minus(Number(touch.clientY), previous.clientY)]

\* The ITouchMoveOperation mapped from a touchmove event, applied to previous.
TouchMoveOperation(te, previous) ==
    LET touch == te.touches[1]
        current == TouchMove(touch)
    IN  [current EXCEPT
            !.movementX = Minus(Number(touch.pageX), previous.pageX),
            !.movementY = Minus(Number(touch.pageY), previous.pageY)]

(***************************************************************************)
(* IPinch and the pinch fold.                                              *)
(***************************************************************************)
\* The seed of the scan of _pinch$.
PinchSeed ==
    [changeX |-> Number(0), changeY |-> Number(0),
     clientX |-> Number(0), clientY |-> Number(0),
     distance |-> Number(0), distanceChange |-> Number(0),
     distanceX |-> Number(0), distanceY |-> Number(0),
     originalEvent |-> null,
     pageX |-> Number(0), pageY |-> Number(0),
     screenX |-> Number(0), screenY |-> Number(0),
     touch1 |-> null, touch2 |-> null]

\* Fault: the extent is not halved.
CenterUnhalved(min, max) == Plus(min, Minus(max, min))

\* let centerClientX = minX + (maxX - minX) / 2, and likewise for Y.
Center(min, max) == Plus(min, Over(Minus(max, min), Number(2)))

\* The IPinchOperation mapped from a touchmove event, applied to previous.
PinchOperation(te, previous) ==
    LET touch1 == te.touches[1]
        touch2 == te.touches[2]
        minX == MathMin(Number(touch1.clientX), Number(touch2.clientX))
        maxX == MathMax(Number(touch1.clientX), Number(touch2.clientX))
        minY == MathMin(Number(touch1.clientY), Number(touch2.clientY))
        maxY == MathMax(Number(touch1.clientY), Number(touch2.clientY))
        centerClientX == Center(minX, maxX)
        centerClientY == Center(minY, maxY)
        centerPageX == Minus(Plus(centerClientX, Number(touch1.pageX)), Number(touch1.clientX))
        centerPageY == Minus(Plus(centerClientY, Number(touch1.pageY)), Number(touch1.clientY))
        centerScreenX == Minus(Plus(centerClientX, Number(touch1.screenX)), Number(touch1.clientX))
        centerScreenY == Minus(Plus(centerClientY, Number(touch1.screenY)), Number(touch1.clientY))
        distanceX == MathAbs(Minus(Number(touch1.clientX), Number(touch2.clientX)))
        distanceY == MathAbs(Minus(Number(touch1.clientY), Number(touch2.clientY)))
        distance == MathSqrt(Plus(Times(distanceX, distanceX), Times(distanceY, distanceY)))
        distanceChange == Minus(distance, previous.distance)
        changeX == Minus(distanceX, previous.distanceX)
        changeY == Minus(distanceY, previous.distanceY)
    IN  [changeX |-> changeX, changeY |-> changeY,
         clientX |-> centerClientX, clientY |-> centerClientY,
         distance |-> distance, distanceChange |-> distanceChange,
         distanceX |-> distanceX, distanceY |-> distanceY,
         originalEvent |-> te,
         pageX |-> centerPageX, pageY |-> centerPageY,
         screenX |-> centerScreenX, screenY |-> centerScreenY,
         touch1 |-> touch1, touch2 |-> touch2]

(***************************************************************************)
(* The classification filters of the constructor.                          *)
(***************************************************************************)
ChangeTypes == {"touchstart", "touchend", "touchcancel"}

\* The filter in front of _singleTouchMoveOperation$.
SingleTouchMoveFilter(e) == Len(e.touches) = 1 /\ Len(e.targetTouches) = 1

\* The filter in front of _pinchOperation$.
PinchMoveFilter(e) == Len(e.touches) = 2 /\ Len(e.targetTouches) = 2

\* merge(touchStart$, touchEnd$, touchCancel$).filter(...)
singleTouchStart(e) ==
    e.type \in ChangeTypes /\ Len(e.touches) = 1 /\ Len(e.targetTouches) = 1

\* Fault: the filter passes occurrences with more than one contact only.
multipleTouchStartMany(e) ==
    e.type \in ChangeTypes /\ Len(e.touches) > 1

multipleTouchStart(e) ==
    e.type \in ChangeTypes /\ Len(e.touches) >= 1

\* merge(touchEnd$, touchCancel$).filter(...)
touchStop(e) ==
    e.type \in {"touchend", "touchcancel"} /\ Len(e.touches) = 0

touchesChanged(e) == e.type \in ChangeTypes

pinchStart(e) ==
    touchesChanged(e) /\ Len(e.touches) = 2 /\ Len(e.targetTouches) = 2

pinchEnd(e) ==
    touchesChanged(e) /\ (Len(e.touches) # 2 \/ Len(e.targetTouches) # 2)

\* The notifier of takeUntil in _singleTouchMoveStart$.
SingleTouchMoveStartUntil(e) == touchStop(e) \/ multipleTouchStart(e)

\* Fault: first() waits for a Stop only.
SingleTouchMoveEndFirstStop(e) == touchStop(e)

\* The source of first() in _singleTouchMoveEnd$.
SingleTouchMoveEndFirst(e) == touchStop(e) \/ multipleTouchStart(e)

\* Fault: takeUntil is notified by a Stop only.
SingleTouchUntilStop(e) == touchStop(e)

\* The notifier of takeUntil in _singleTouch$.
SingleTouchUntil(e) == multipleTouchStart(e) \/ touchStop(e)

\* Fault: the notifier of takeUntil in _pinchChange$ is touchStop$.
PinchChangeUntilStop(e) == touchStop(e)

\* The notifier of takeUntil in _pinchChange$.
PinchChangeUntil(e) == pinchEnd(e)

\* skip(1) of _singleTouch$ and of _pinchChange$.
SkipCount == 1

(***************************************************************************)
(* State.                                                                  *)
(***************************************************************************)
VARIABLES
    occurrence,         \* the raw touch occurrence processed last (null: none yet)
    startInners,        \* _singleTouchMoveStart$: accumulators of the live inner scans
    endInners,          \* _singleTouchMoveEnd$: number of live inner first() subscriptions
    singleTouchInner,   \* _singleTouch$: the inner subscription of the switchMap
    pinchChangeInner,   \* _pinchChange$: the inner subscription of the switchMap
    emitted,            \* what each public stream delivered during the last occurrence
    session,            \* history: the qualifying moves seen since a window was opened
    activeSubject,      \* _activeSubject$: the value the BehaviorSubject holds
    connection,         \* _active$: the connection of refCount to the source
    replayBuffer,       \* _active$: the buffer of the ReplaySubject of publishReplay(1)
    observers,          \* _active$: what each subscribed observer has received
    activeOp,           \* _active$ / activate$: the operation performed last
    handler,            \* ScrollZoomHandler: its two subscriptions, and whether the last call threw
    env,                \* ScrollZoomHandler: what its collaborators currently report
    wheel,              \* ScrollZoomHandler: the effects of the last wheel occurrence
    element,            \* RenderService: the size the element has now
    sizeConnected,      \* _size$: refCount has the ReplaySubject subscribed to the map
    sizeBuffer,         \* _size$: the buffer of the ReplaySubject of shareReplay(1)
    sizeObservers,      \* _size$: what each subscribed observer has received
    resized             \* history: the size the element had at the last value of _resize$

touchVars == <<occurrence, startInners, endInners, singleTouchInner, pinchChangeInner, emitted, session>>

activeVars == <<activeSubject, connection, replayBuffer, observers, activeOp>>

wheelVars == <<handler, env, wheel>>

renderVars == <<element, sizeConnected, sizeBuffer, sizeObservers, resized>>

vars == <<touchVars, activeVars, wheelVars, renderVars>>

(***************************************************************************)
(* The inner subscriptions of the two switchMaps: a scan over the          *)
(* operation subject that starts from the seed on every subscription,      *)
(* followed by skip(1) and takeUntil.                                      *)
(***************************************************************************)
Subscribed(seed) == [subscribed |-> TRUE, acc |-> seed, count |-> 0]

Unsubscribed(seed) == [subscribed |-> FALSE, acc |-> seed, count |-> 0]

\* skip: the count of values seen, which matters up to SkipCount only.
Seen(inner) == IF inner.count < SkipCount THEN inner.count + 1 ELSE inner.count

\* _singleTouch$ on a touchstart/touchend/touchcancel occurrence: the outer
\* listener runs before the notifier of the inner subscription.
SingleTouchOnChange(inner, e) ==
    IF singleTouchStart(e) THEN Subscribed(SingleTouchMoveSeed)
    ELSE IF inner.subscribed /\ SingleTouchUntil(e) THEN Unsubscribed(SingleTouchMoveSeed)
    ELSE inner

\* Fault: the inner subscription of _singleTouch$ ends with its first value.
SingleTouchOnMoveOnce(inner, e) ==
    IF inner.subscribed /\ SingleTouchMoveFilter(e)
    THEN Unsubscribed(SingleTouchMoveSeed)
    ELSE inner

\* _singleTouch$ on a touchmove occurrence.
SingleTouchOnMove(inner, e) ==
    IF inner.subscribed /\ SingleTouchMoveFilter(e)
    THEN [inner EXCEPT !.acc = TouchMoveOperation(e, inner.acc), !.count = Seen(inner)]
    ELSE inner

\* Fault: the inner subscription of _singleTouch$ lacks skip(1).
SingleTouchEmitsUnskipped(inner, e) ==
    IF inner.subscribed /\ SingleTouchMoveFilter(e)
    THEN <<TouchMoveOperation(e, inner.acc)>>
    ELSE <<>>

SingleTouchEmits(inner, e) ==
    IF inner.subscribed /\ SingleTouchMoveFilter(e) /\ inner.count >= SkipCount
    THEN <<TouchMoveOperation(e, inner.acc)>>
    ELSE <<>>

\* _pinchChange$ on a touchstart/touchend/touchcancel occurrence.
PinchChangeOnChange(inner, e) ==
    IF pinchStart(e) THEN Subscribed(PinchSeed)
    ELSE IF inner.subscribed /\ PinchChangeUntil(e) THEN Unsubscribed(PinchSeed)
    ELSE inner

\* Fault: the scan of _pinch$ does not keep the descriptor it returns.
PinchChangeOnMoveForgets(inner, e) ==
    IF inner.subscribed /\ PinchMoveFilter(e)
    THEN [inner EXCEPT !.count = Seen(inner)]
    ELSE inner

\* _pinchChange$ on a touchmove occurrence.
PinchChangeOnMove(inner, e) ==
    IF inner.subscribed /\ PinchMoveFilter(e)
    THEN [inner EXCEPT !.acc = PinchOperation(e, inner.acc), !.count = Seen(inner)]
    ELSE inner

PinchChangeEmits(inner, e) ==
    IF inner.subscribed /\ PinchMoveFilter(e) /\ inner.count >= SkipCount
    THEN <<PinchOperation(e, inner.acc)>>
    ELSE <<>>

(***************************************************************************)
(* The inner subscriptions of the two mergeMaps.                           *)
(***************************************************************************)
\* Fault: one scan is shared by the sessions, so that the inner subscription
\* of a session starts from the touchmove that the scan folded last.
SingleTouchMoveStartOnChangeShared(inners, e) ==
    LET last == IF session.single.last # <<>>
                THEN session.single.last
                ELSE session.single.before
    IN  (IF SingleTouchMoveStartUntil(e) THEN <<>> ELSE inners)
        \o (IF singleTouchStart(e)
            THEN <<IF last = <<>> THEN SingleTouchMoveSeed ELSE TouchMove(last[1])>>
            ELSE <<>>)

\* Fault: the inner scans of _singleTouchMoveStart$ lack takeUntil.
SingleTouchMoveStartOnChangeUnending(inners, e) ==
    inners \o (IF singleTouchStart(e) THEN <<SingleTouchMoveSeed>> ELSE <<>>)

\* _singleTouchMoveStart$ on a touchstart/touchend/touchcancel occurrence:
\* takeUntil ends the live inner scans, the outer adds one for a single start.
SingleTouchMoveStartOnChange(inners, e) ==
    (IF SingleTouchMoveStartUntil(e) THEN <<>> ELSE inners)
    \o (IF singleTouchStart(e) THEN <<SingleTouchMoveSeed>> ELSE <<>>)

\* _singleTouchMoveStart$ on a touchmove occurrence: take(1) delivers the
\* first value of every live inner scan and completes it.
SingleTouchMoveStartEmits(inners, e) ==
    IF SingleTouchMoveFilter(e)
    THEN [i \in 1..Len(inners) |-> TouchMoveOperation(e, inners[i])]
    ELSE <<>>

\* Fault: the inner scans of _singleTouchMoveStart$ lack take(1).
SingleTouchMoveStartOnMoveUntaken(inners, e) == inners

SingleTouchMoveStartOnMove(inners, e) ==
    IF SingleTouchMoveFilter(e) THEN <<>> ELSE inners

\* _singleTouchMoveEnd$ on a touchstart/touchend/touchcancel occurrence.
SingleTouchMoveEndEmits(n, e) ==
    IF SingleTouchMoveEndFirst(e) THEN [i \in 1..n |-> e] ELSE <<>>

\* Fault: the inner subscriptions of _singleTouchMoveEnd$ lack first().
SingleTouchMoveEndOnChangeKept(n, e) == n + (IF singleTouchStart(e) THEN 1 ELSE 0)

SingleTouchMoveEndOnChange(n, e) ==
    (IF SingleTouchMoveEndFirst(e) THEN 0 ELSE n)
    + (IF singleTouchStart(e) THEN 1 ELSE 0)

(***************************************************************************)
(* History of the sessions, kept for the properties: a Single session is   *)
(* opened by a touchstart/touchend/touchcancel with counts (1,1) and ended *)
(* by a Stop or a Multi-start, a Pair session is opened by one with counts *)
(* (2,2) and ended by one with other counts.  For the open session it      *)
(* holds the number of qualifying touchmoves seen (up to MaxSeen) and the  *)
(* touch lists of the last two of them, and the number of values that     *)
(* singleTouchMoveStart$ delivered since it opened.  before is the touch   *)
(* list of the last qualifying touchmove of the sessions that came before. *)
(***************************************************************************)
Opened == [open |-> TRUE, seen |-> 0, last |-> <<>>, prev |-> <<>>,
           starts |-> 0, before |-> <<>>]

Closed == [open |-> FALSE, seen |-> 0, last |-> <<>>, prev |-> <<>>,
           starts |-> 0, before |-> <<>>]

\* The touch list of the last qualifying touchmove up to and including g.
Folded(g) == IF g.last # <<>> THEN g.last ELSE g.before

Qualifies(e, n) == Len(e.touches) = n /\ Len(e.targetTouches) = n

SessionOnChange(s, e) ==
    [single |-> IF Qualifies(e, 1) THEN [Opened EXCEPT !.before = Folded(s.single)]
                ELSE IF (e.type # "touchstart" /\ Len(e.touches) = 0) \/ Len(e.touches) >= 1
                     THEN [Closed EXCEPT !.before = Folded(s.single)]
                ELSE s.single,
     pair   |-> IF Qualifies(e, 2) THEN Opened ELSE Closed]

Moved(g, e) ==
    [g EXCEPT !.seen = IF g.seen < MaxSeen THEN g.seen + 1 ELSE g.seen,
              !.prev = g.last,
              !.last = e.touches]

SessionOnMove(s, e) ==
    [single |-> IF s.single.open /\ Qualifies(e, 1) THEN Moved(s.single, e) ELSE s.single,
     pair   |-> IF s.pair.open /\ Qualifies(e, 2) THEN Moved(s.pair, e) ELSE s.pair]

\* The values that singleTouchMoveStart$ delivered are counted on the session.
SessionOnStart(s, values) ==
    [s EXCEPT !.single.starts = IF @ + Len(values) < MaxSeen THEN @ + Len(values) ELSE MaxSeen]

(***************************************************************************)
(* Touch occurrences.                                                      *)
(***************************************************************************)
Nothing ==
    [singleTouchMoveStart |-> <<>>, singleTouchMove |-> <<>>, singleTouchMoveEnd |-> <<>>,
     pinch |-> <<>>, pinchStart |-> <<>>, pinchEnd |-> <<>>]

\* A touchstart, touchend or touchcancel occurrence e.
TouchesChanged(e) ==
    /\ occurrence' = e
    /\ startInners' = SingleTouchMoveStartOnChange(startInners, e)
    /\ endInners' = SingleTouchMoveEndOnChange(endInners, e)
    /\ singleTouchInner' = SingleTouchOnChange(singleTouchInner, e)
    /\ pinchChangeInner' = PinchChangeOnChange(pinchChangeInner, e)
    /\ emitted' = [Nothing EXCEPT
            !.singleTouchMoveEnd = SingleTouchMoveEndEmits(endInners, e),
            !.pinchStart = IF pinchStart(e) THEN <<e>> ELSE <<>>,
            !.pinchEnd = IF pinchEnd(e) THEN <<e>> ELSE <<>>]
    /\ session' = SessionOnChange(session, e)

\* A touchmove occurrence e.
TouchMoved(e) ==
    /\ occurrence' = e
    /\ startInners' = SingleTouchMoveStartOnMove(startInners, e)
    /\ UNCHANGED endInners
    /\ singleTouchInner' = SingleTouchOnMove(singleTouchInner, e)
    /\ pinchChangeInner' = PinchChangeOnMove(pinchChangeInner, e)
    /\ emitted' = [Nothing EXCEPT
            !.singleTouchMoveStart = SingleTouchMoveStartEmits(startInners, e),
            !.singleTouchMove = SingleTouchEmits(singleTouchInner, e),
            !.pinch = PinchChangeEmits(pinchChangeInner, e)]
    /\ session' = SessionOnStart(SessionOnMove(session, e),
                               SingleTouchMoveStartEmits(startInners, e))

touchstart ==
    /\ \E e \in TouchEvents("touchstart") : TouchesChanged(e)
    /\ UNCHANGED <<activeVars, wheelVars, renderVars>>

touchend ==
    /\ \E e \in TouchEvents("touchend") : TouchesChanged(e)
    /\ UNCHANGED <<activeVars, wheelVars, renderVars>>

touchcancel ==
    /\ \E e \in TouchEvents("touchcancel") : TouchesChanged(e)
    /\ UNCHANGED <<activeVars, wheelVars, renderVars>>

touchmove ==
    /\ \E e \in TouchMoveEvents : TouchMoved(e)
    /\ UNCHANGED <<activeVars, wheelVars, renderVars>>

\* A touchmove occurrence with any pair of counts.
touchmoveCounts ==
    /\ \E e \in TouchEvents("touchmove") : TouchMoved(e)
    /\ UNCHANGED <<activeVars, wheelVars, renderVars>>

\* The element reports that every contact has ended or was cancelled: a
\* touchend or touchcancel occurrence with no active contact.
contactsEnded ==
    /\ \E e \in TouchEvents("touchend") \cup TouchEvents("touchcancel") :
            Len(e.touches) = 0 /\ TouchesChanged(e)
    /\ UNCHANGED <<activeVars, wheelVars, renderVars>>

TouchInit ==
    /\ occurrence = null
    /\ startInners = <<>>
    /\ endInners = 0
    /\ singleTouchInner = Unsubscribed(SingleTouchMoveSeed)
    /\ pinchChangeInner = Unsubscribed(PinchSeed)
    /\ emitted = Nothing
    /\ session = [single |-> Closed, pair |-> Closed]

(***************************************************************************)
(* The activation gate: _activeSubject$ and                                *)
(* _active$ = _activeSubject$.distinctUntilChanged().publishReplay(1)      *)
(*                           .refCount().                                  *)
(***************************************************************************)
\* The number of observers of active$.
MaxObservers == 2

\* The number of values last received that an observer is remembered by.
MaxReceived == 3

Observers == 1..MaxObservers

\* Fault: a plain Subject, which delivers nothing on subscription.
SubjectOnSubscribe(value) == <<>>

\* What a BehaviorSubject delivers to a subscriber when it subscribes.
BehaviorSubjectOnSubscribe(value) == <<value>>

\* distinctUntilChanged: the values of vs passed on by a subscriber in state c.
RECURSIVE DistinctUntilChanged(_, _)
DistinctUntilChanged(c, vs) ==
    IF vs = <<>> THEN <<>>
    ELSE IF c.hasKey /\ c.key = Head(vs)
         THEN DistinctUntilChanged(c, Tail(vs))
         ELSE <<Head(vs)>> \o DistinctUntilChanged([c EXCEPT !.hasKey = TRUE, !.key = Head(vs)], Tail(vs))

\* The state of the distinctUntilChanged subscriber after the values vs.
RECURSIVE DistinctKey(_, _)
DistinctKey(c, vs) ==
    IF vs = <<>> THEN c
    ELSE IF c.hasKey /\ c.key = Head(vs)
         THEN DistinctKey(c, Tail(vs))
         ELSE DistinctKey([c EXCEPT !.hasKey = TRUE, !.key = Head(vs)], Tail(vs))

\* ReplaySubject(1): the buffer after the values vs.
ReplayNext(buffer, vs) ==
    IF vs = <<>> THEN buffer ELSE <<vs[Len(vs)]>>

Connected == [connected |-> TRUE, hasKey |-> FALSE, key |-> FALSE]

Disconnected == [connected |-> FALSE, hasKey |-> FALSE, key |-> FALSE]

Keep(received) ==
    IF Len(received) > MaxReceived
    THEN SubSeq(received, Len(received) - MaxReceived + 1, Len(received))
    ELSE received

Deliver(obs, vs) ==
    [o \in Observers |->
        IF obs[o].subscribed
        THEN [obs[o] EXCEPT !.received = Keep(@ \o vs)]
        ELSE obs[o]]

\* activate$.next(v)
Activate(v) ==
    LET passed == IF connection.connected
                  THEN DistinctUntilChanged(connection, <<v>>)
                  ELSE <<>>
    IN  /\ activeSubject' = v
        /\ connection' = IF connection.connected
                          THEN DistinctKey(connection, <<v>>)
                          ELSE connection
        /\ replayBuffer' = ReplayNext(replayBuffer, passed)
        /\ observers' = Deliver(observers, passed)
        /\ activeOp' = [op |-> "next", observer |-> 0]

\* active$.subscribe() by observer o: refCount subscribes the observer to the
\* ReplaySubject, which replays its buffer, and then connects if this is the
\* first observer: the source is subscribed and delivers the held value.
Subscribe(o) ==
    /\ ~observers[o].subscribed
    /\ LET replayed == replayBuffer
           joined == [observers EXCEPT ![o] = [subscribed |-> TRUE, received |-> replayed]]
           connect == ~connection.connected
           passed == IF connect
                     THEN DistinctUntilChanged(Connected, BehaviorSubjectOnSubscribe(activeSubject))
                     ELSE <<>>
       IN  /\ connection' = IF connect
                             THEN DistinctKey(Connected, BehaviorSubjectOnSubscribe(activeSubject))
                             ELSE connection
           /\ replayBuffer' = ReplayNext(replayBuffer, passed)
           /\ observers' = Deliver(joined, passed)
    /\ activeOp' = [op |-> "subscribe", observer |-> o]
    /\ UNCHANGED activeSubject

\* Unsubscription of observer o: refCount disconnects with the last observer.
Unsubscribe(o) ==
    /\ observers[o].subscribed
    /\ observers' = [observers EXCEPT ![o] = [subscribed |-> FALSE, received |-> <<>>]]
    /\ connection' = IF \E p \in Observers \ {o} : observers[p].subscribed
                      THEN connection
                      ELSE Disconnected
    /\ activeOp' = [op |-> "unsubscribe", observer |-> o]
    /\ UNCHANGED <<activeSubject, replayBuffer>>

activate ==
    /\ \E v \in BOOLEAN : Activate(v)
    /\ UNCHANGED <<touchVars, wheelVars, renderVars>>

subscribe ==
    /\ \E o \in Observers : Subscribe(o)
    /\ UNCHANGED <<touchVars, wheelVars, renderVars>>

unsubscribe ==
    /\ \E o \in Observers : Unsubscribe(o)
    /\ UNCHANGED <<touchVars, wheelVars, renderVars>>

ActiveInit ==
    /\ activeSubject = FALSE
    /\ connection = Disconnected
    /\ replayBuffer = <<>>
    /\ observers = [o \in Observers |-> [subscribed |-> FALSE, received |-> <<>>]]
    /\ activeOp = [op |-> "new", observer |-> 0]

(***************************************************************************)
(* ScrollZoomHandler.                                                      *)
(***************************************************************************)
\* The largest nodesAhead a state frame reports.
MaxNodesAhead == 1

Subscription == [closed |-> FALSE]

\* element.offsetHeight of the container: the heights of a visible element.
Heights == {600, 7}

\* WheelEvent.deltaY and WheelEvent.deltaMode (pixel, line, page).
DeltaYs == {Number(-3), Number(0), Number(3), Rat(5, 2)}

DeltaModes == {0, 1, 2}

WheelEvents == [deltaY : DeltaYs, deltaMode : DeltaModes]

Frames == [fullPano : BOOLEAN, nodesAhead : 0..MaxNodesAhead]

\* Fault: the unit of the delta is ignored.
NormalizedDeltaYPixels(event) == event.deltaY

\* deltaY scaled by the unit of the delta.
NormalizedDeltaY(event) ==
    IF event.deltaMode = 1 THEN Times(Number(40), event.deltaY)
    ELSE IF event.deltaMode = 2 THEN Times(Number(800), event.deltaY)
    ELSE event.deltaY

\* let zoom = -3 * deltaY / canvasHeight
Zoom(event, canvasHeight) ==
    Over(Times(Number(-3), NormalizedDeltaY(event)), Number(canvasHeight))

\* mouseService.filtered$(name, mouseWheel$) lets the occurrence pass.
Filtered(e) == e.filtered

\* Fault: the filter lets a frame with one node ahead pass.
StateFilterAhead(frame) == frame.fullPano \/ frame.nodesAhead <= 1

\* The filter on the latest frame of currentState$.
StateFilter(frame) == frame.fullPano \/ frame.nodesAhead < 1

\* The wheel occurrence reaches the subscriber of _zoomSubscription.
Forwarded(h, e) ==
    /\ h.zoomSubscription # null
    /\ Filtered(e)
    /\ e.frame # null
    /\ StateFilter(e.frame)
    /\ e.renderCamera
    /\ e.transform

\* Fault: preventDefault is subscribed to the filtered occurrences only.
PreventedFiltered(h, e) == h.preventDefaultSubscription # null /\ Filtered(e)

\* The wheel occurrence reaches the subscriber of _preventDefaultSubscription.
Prevented(h, e) == h.preventDefaultSubscription # null

\* The handler is enabled: _enable() has run and _disable() has not since.
Enabled(h) == h.preventDefaultSubscription # null /\ h.zoomSubscription # null

\* The lifecycle of the handler's base class calls _enable() only while the
\* handler is not enabled.
CanEnable(h) == h.preventDefaultSubscription = null

\* _enable(), called while the handler is not enabled.
Enable ==
    /\ CanEnable(handler)
    /\ handler' = [preventDefaultSubscription |-> Subscription,
                   zoomSubscription |-> Subscription,
                   thrown |-> FALSE]
    /\ UNCHANGED <<env, wheel>>

\* _disable(), called in any state of the handler: the method tests nothing
\* before it dereferences _preventDefaultSubscription, so a call that finds
\* the field empty throws a TypeError on its first statement and changes
\* nothing. thrown records that the last _enable() or _disable() call threw.
Disable ==
    /\ handler' = IF handler.preventDefaultSubscription = null
                  THEN [handler EXCEPT !.thrown = TRUE]
                  ELSE [preventDefaultSubscription |-> null,
                        zoomSubscription |-> null,
                        thrown |-> FALSE]
    /\ UNCHANGED <<env, wheel>>

\* A wheel occurrence on the element.
MouseWheel(event) ==
    /\ wheel' = [event |-> event,
                 canvasHeight |-> env.offsetHeight,
                 defaultPrevented |-> Prevented(handler, env),
                 zoomIn |-> IF Forwarded(handler, env)
                            THEN <<[zoom |-> Zoom(event, env.offsetHeight),
                                    reference |-> "reference"]>>
                            ELSE <<>>]
    /\ UNCHANGED <<handler, env>>

enable == Enable /\ UNCHANGED <<touchVars, activeVars, renderVars>>

disable == Disable /\ UNCHANGED <<touchVars, activeVars, renderVars>>

mouseWheel ==
    /\ \E event \in WheelEvents : MouseWheel(event)
    /\ UNCHANGED <<touchVars, activeVars, renderVars>>

\* currentState$ delivers a frame.
currentState ==
    /\ \E f \in Frames : env' = [env EXCEPT !.frame = f]
    /\ UNCHANGED <<handler, wheel, touchVars, activeVars, renderVars>>

\* renderCamera$ delivers a camera.
renderCamera ==
    /\ env' = [env EXCEPT !.renderCamera = TRUE]
    /\ UNCHANGED <<handler, wheel, touchVars, activeVars, renderVars>>

\* currentTransform$ delivers a transform.
currentTransform ==
    /\ env' = [env EXCEPT !.transform = TRUE]
    /\ UNCHANGED <<handler, wheel, touchVars, activeVars, renderVars>>

\* The container element changes its height.
resize ==
    /\ \E h \in Heights : env' = [env EXCEPT !.offsetHeight = h]
    /\ UNCHANGED <<handler, wheel, touchVars, activeVars, renderVars>>

\* The mouse service starts or stops letting the handler's occurrences pass.
mouseClaim ==
    /\ \E b \in BOOLEAN : env' = [env EXCEPT !.filtered = b]
    /\ UNCHANGED <<handler, wheel, touchVars, activeVars, renderVars>>

WheelInit ==
    /\ handler = [preventDefaultSubscription |-> null, zoomSubscription |-> null,
                  thrown |-> FALSE]
    /\ env \in [frame : {null}, renderCamera : {FALSE}, transform : {FALSE},
                 offsetHeight : Heights, filtered : {FALSE}]
    /\ wheel = [event |-> null, canvasHeight |-> 0, defaultPrevented |-> FALSE, zoomIn |-> <<>>]

(***************************************************************************)
(* Specifications: one for each of the three components, which share no    *)
(* state.                                                                  *)
(***************************************************************************)
(***************************************************************************)
(* RenderService: _resize$ is a BehaviorSubject and                        *)
(* _size$ = _resize$.map(read the element).shareReplay(1), which is        *)
(* replay(1).refCount() over one ReplaySubject.                            *)
(***************************************************************************)
\* The sizes the element takes.
Elements ==
    {[offsetWidth |-> 640, offsetHeight |-> 480],
     [offsetWidth |-> 800, offsetHeight |-> 600],
     [offsetWidth |-> 0, offsetHeight |-> 0]}

\* The selector of the map: the size read from the element.
Size(el) == [height |-> el.offsetHeight, width |-> el.offsetWidth]

\* resize$.onNext(null): the subject delivers to the map if the ReplaySubject
\* is connected to it, and the map reads the element.
Resize ==
    LET passed == IF sizeConnected THEN <<Size(element)>> ELSE <<>>
    IN  /\ sizeBuffer' = ReplayNext(sizeBuffer, passed)
        /\ sizeObservers' = Deliver(sizeObservers, passed)
        /\ resized' = Size(element)
        /\ UNCHANGED <<element, sizeConnected>>

\* size$.subscribe() by observer o: refCount subscribes the observer to the
\* ReplaySubject, which replays its buffer, and then connects if this is the
\* first observer: the BehaviorSubject delivers the value it holds to the
\* map, which reads the element.
SizeSubscribe(o) ==
    /\ ~sizeObservers[o].subscribed
    /\ LET joined == [sizeObservers EXCEPT
                        ![o] = [subscribed |-> TRUE, received |-> sizeBuffer]]
           passed == IF sizeConnected THEN <<>> ELSE <<Size(element)>>
       IN  /\ sizeBuffer' = ReplayNext(sizeBuffer, passed)
           /\ sizeObservers' = Deliver(joined, passed)
    /\ sizeConnected' = TRUE
    /\ UNCHANGED <<element, resized>>

\* Disposal of the subscription of observer o: refCount disposes of the
\* connection with the last observer; the ReplaySubject keeps its buffer.
SizeUnsubscribe(o) ==
    /\ sizeObservers[o].subscribed
    /\ sizeObservers' = [sizeObservers EXCEPT
                            ![o] = [subscribed |-> FALSE, received |-> <<>>]]
    /\ sizeConnected' = \E p \in Observers \ {o} : sizeObservers[p].subscribed
    /\ UNCHANGED <<element, sizeBuffer, resized>>

resizeNext == Resize /\ UNCHANGED <<touchVars, activeVars, wheelVars>>

sizeSubscribe ==
    /\ \E o \in Observers : SizeSubscribe(o)
    /\ UNCHANGED <<touchVars, activeVars, wheelVars>>

sizeUnsubscribe ==
    /\ \E o \in Observers : SizeUnsubscribe(o)
    /\ UNCHANGED <<touchVars, activeVars, wheelVars>>

\* The element takes another size; the service is not told.
elementResized ==
    /\ \E el \in Elements \ {element} : element' = el
    /\ UNCHANGED <<sizeConnected, sizeBuffer, sizeObservers, resized>>
    /\ UNCHANGED <<touchVars, activeVars, wheelVars>>

\* new RenderService(element), for an element of the first size: the
\* BehaviorSubject holds its first value.  resized is the size the element
\* had at the last value of _resize$.
RenderInit ==
    /\ element = [offsetWidth |-> 640, offsetHeight |-> 480]
    /\ sizeConnected = FALSE
    /\ sizeBuffer = <<>>
    /\ sizeObservers = [o \in Observers |-> [subscribed |-> FALSE, received |-> <<>>]]
    /\ resized = Size(element)

Init == TouchInit /\ ActiveInit /\ WheelInit /\ RenderInit

TouchNext == touchstart \/ touchmove \/ touchend \/ touchcancel

ActiveNext == activate \/ subscribe \/ unsubscribe

WheelNext ==
    \/ enable \/ disable \/ mouseWheel
    \/ currentState \/ renderCamera \/ currentTransform \/ resize \/ mouseClaim

RenderNext == resizeNext \/ sizeSubscribe \/ sizeUnsubscribe \/ elementResized

TouchSpec == Init /\ [][TouchNext]_vars

ActiveSpec == Init /\ [][ActiveNext]_vars

WheelSpec == Init /\ [][WheelNext]_vars

RenderSpec == Init /\ [][RenderNext]_vars

\* The touch occurrences told by their type and counts alone, which is all
\* that the filters of the windows read, under the assumption that every
\* contact is eventually reported ended or cancelled.
TouchCountsNext == touchstart \/ touchend \/ touchcancel \/ touchmoveCounts

TouchFairSpec == Init /\ [][TouchCountsNext]_vars /\ WF_vars(contactsEnded)

(***************************************************************************)
(* Properties.                                                             *)
(***************************************************************************)
IsChange(e) == e # null /\ e.type \in ChangeTypes

IsMove(e) == e # null /\ e.type = "touchmove"

\* C1: after every occurrence the inner subscription of singleTouchMove$
\* (the Single window) and that of pinch$ (the Pair window) are not both
\* open, and no occurrence is delivered on both singleTouchMove$ and pinch$.
C1_MutualExclusion ==
    /\ ~(singleTouchInner.subscribed /\ pinchChangeInner.subscribed)
    /\ ~(emitted.singleTouchMove # <<>> /\ emitted.pinch # <<>>)

\* A Pair window opened by the occurrence that ended a Single session.
C1_Witness ==
    /\ pinchChangeInner.subscribed
    /\ ~singleTouchInner.subscribed
    /\ emitted.singleTouchMoveEnd # <<>>

\* C2: a touchstart/touchend/touchcancel with counts (2,2) that arrives
\* while the Single window is open is delivered once on singleTouchMoveEnd$
\* and closes the Single window (nothing is delivered on singleTouchMove$),
\* and is delivered once on pinchStart$ and opens the Pair window.
C2_SingleToPair ==
    [][(singleTouchInner.subscribed /\ IsChange(occurrence') /\ Qualifies(occurrence', 2))
        => /\ emitted'.singleTouchMoveEnd = <<occurrence'>>
           /\ ~singleTouchInner'.subscribed
           /\ emitted'.singleTouchMove = <<>>
           /\ emitted'.pinchStart = <<occurrence'>>
           /\ pinchChangeInner'.subscribed]_vars

\* The occurrence with counts (2,2) was delivered as the end of the Single
\* session and as the start of the pinch.
C2_Witness ==
    /\ IsChange(occurrence) /\ Qualifies(occurrence, 2)
    /\ emitted.singleTouchMoveEnd = <<occurrence>>
    /\ emitted.pinchStart = <<occurrence>>
    /\ pinchChangeInner.subscribed

\* C3: the first touchmove with counts (1,1) of a Single session is not
\* delivered on singleTouchMove$ and every later one is delivered exactly
\* once; likewise for counts (2,2), a Pair session and pinch$.
C3_FirstSkipped ==
    /\ (IsMove(occurrence) /\ Qualifies(occurrence, 1) /\ session.single.open)
        => /\ session.single.seen = 1 => emitted.singleTouchMove = <<>>
           /\ session.single.seen >= 2 =>
                /\ Len(emitted.singleTouchMove) = 1
                /\ emitted.singleTouchMove[1].identifier = Number(occurrence.touches[1].identifier)
    /\ (IsMove(occurrence) /\ Qualifies(occurrence, 2) /\ session.pair.open)
        => /\ session.pair.seen = 1 => emitted.pinch = <<>>
           /\ session.pair.seen >= 2 =>
                /\ Len(emitted.pinch) = 1
                /\ emitted.pinch[1].originalEvent = occurrence

\* The second two-contact touchmove of a Pair session, delivered on pinch$.
C3_Witness ==
    /\ IsMove(occurrence) /\ Qualifies(occurrence, 2)
    /\ session.pair.open /\ session.pair.seen >= 2
    /\ Len(emitted.pinch) = 1

\* C4: every TrackedMovement delivered on singleTouchMoveStart$ carries
\* movementX = 0 and movementY = 0.
C4_StartMovementZero ==
    \A i \in 1..Len(emitted.singleTouchMoveStart) :
        /\ emitted.singleTouchMoveStart[i].movementX = Number(0)
        /\ emitted.singleTouchMoveStart[i].movementY = Number(0)

\* C5: every TrackedMovement delivered on singleTouchMove$ carries the page
\* position of its touchmove minus the page position of the preceding
\* touchmove with counts (1,1) of the same Single session.
C5_MovementIsPageDifference ==
    \A i \in 1..Len(emitted.singleTouchMove) :
        /\ IsMove(occurrence) /\ Qualifies(occurrence, 1)
        /\ session.single.open /\ session.single.seen >= 2
        /\ LET m == emitted.singleTouchMove[i]
               current == occurrence.touches[1]
               previous == session.single.prev[1]
           IN  /\ m.pageX = Number(current.pageX)
               /\ m.pageY = Number(current.pageY)
               /\ m.movementX = Number(current.pageX - previous.pageX)
               /\ m.movementY = Number(current.pageY - previous.pageY)

\* Page (100,100) followed by page (105,98) is delivered with movement (5,-2).
C5_Witness ==
    /\ Len(emitted.singleTouchMove) = 1
    /\ session.single.prev = <<TouchPool[1]>>
    /\ occurrence.touches = <<TouchPool[2]>>
    /\ emitted.singleTouchMove[1].movementX = Number(5)
    /\ emitted.singleTouchMove[1].movementY = Number(-2)

\* The descriptors the pinch fold has computed: the one it holds and the
\* ones delivered during the last occurrence.
Descriptors ==
    {emitted.pinch[i] : i \in 1..Len(emitted.pinch)}
    \cup (IF pinchChangeInner.acc.originalEvent # null THEN {pinchChangeInner.acc} ELSE {})

\* C6: every pinch descriptor computed from contacts A and B has
\* distanceX = |A.clientX - B.clientX|, distanceY = |A.clientY - B.clientY|,
\* distance^2 = distanceX^2 + distanceY^2 with distance >= 0, the client
\* centre at the midpoint of A and B, the page and screen centre at the
\* client centre plus A's page and screen offset; A = (0,0), B = (10,0) gives
\* distance 10, distanceX 10, distanceY 0 and centre (5,0); and the distance
\* and client-centre fields are the same with A and B swapped.
C6_PinchGeometry ==
    \A d \in Descriptors :
        LET A == d.touch1
            B == d.touch2
            swapped == PinchOperation(TouchEvent("touchmove", <<B, A>>, 2), PinchSeed)
        IN  /\ d.distanceX = Number(IntAbs(A.clientX - B.clientX))
            /\ d.distanceY = Number(IntAbs(A.clientY - B.clientY))
            /\ IsNumber(d.distance) /\ d.distance.num >= 0
            /\ Times(d.distance, d.distance)
                 = Number((A.clientX - B.clientX) * (A.clientX - B.clientX)
                          + (A.clientY - B.clientY) * (A.clientY - B.clientY))
            /\ Times(Number(2), d.clientX) = Number(A.clientX + B.clientX)
            /\ Times(Number(2), d.clientY) = Number(A.clientY + B.clientY)
            /\ d.pageX = Plus(d.clientX, Number(A.pageX - A.clientX))
            /\ d.pageY = Plus(d.clientY, Number(A.pageY - A.clientY))
            /\ d.screenX = Plus(d.clientX, Number(A.screenX - A.clientX))
            /\ d.screenY = Plus(d.clientY, Number(A.screenY - A.clientY))
            /\ (A.clientX = 0 /\ A.clientY = 0 /\ B.clientX = 10 /\ B.clientY = 0)
                => /\ d.distance = Number(10)
                   /\ d.distanceX = Number(10) /\ d.distanceY = Number(0)
                   /\ d.clientX = Number(5) /\ d.clientY = Number(0)
            /\ swapped.distance = d.distance
            /\ swapped.distanceX = d.distanceX /\ swapped.distanceY = d.distanceY
            /\ swapped.clientX = d.clientX /\ swapped.clientY = d.clientY

\* The descriptor of A = (0,0), B = (10,0) has been computed.
C6_Witness ==
    \E d \in Descriptors :
        /\ d.touch1 = TouchPool[1] /\ d.touch2 = TouchPool[2]
        /\ d.distance = Number(10) /\ d.clientX = Number(5)

\* The distance between the two contacts of a touch list.
DistanceOf(l) ==
    LET dx == IntAbs(l[1].clientX - l[2].clientX)
        dy == IntAbs(l[1].clientY - l[2].clientY)
    IN  CHOOSE k \in 0..(dx + dy) : k * k = dx * dx + dy * dy

\* C7: every descriptor delivered on pinch$ has distanceChange = its distance
\* minus the distance of the preceding two-contact touchmove of the same Pair
\* session, and changeX and changeY likewise.
C7_ChangeFromPreceding ==
    \A i \in 1..Len(emitted.pinch) :
        /\ IsMove(occurrence) /\ Qualifies(occurrence, 2)
        /\ session.pair.open /\ session.pair.seen >= 2
        /\ LET d == emitted.pinch[i]
               previous == session.pair.prev
           IN  /\ d.touch1 = occurrence.touches[1] /\ d.touch2 = occurrence.touches[2]
               /\ d.distance = Number(DistanceOf(occurrence.touches))
               /\ d.distanceChange
                    = Number(DistanceOf(occurrence.touches) - DistanceOf(previous))
               /\ d.changeX = Minus(d.distanceX,
                                    Number(IntAbs(previous[1].clientX - previous[2].clientX)))
               /\ d.changeY = Minus(d.distanceY,
                                    Number(IntAbs(previous[1].clientY - previous[2].clientY)))

\* (0,0),(10,0) followed by (0,0),(20,0) is delivered with distance 20 and
\* distanceChange 10.
C7_Witness ==
    /\ Len(emitted.pinch) = 1
    /\ session.pair.prev = <<TouchPool[1], TouchPool[2]>>
    /\ occurrence.touches = <<TouchPool[1], TouchPool[3]>>
    /\ emitted.pinch[1].distance = Number(20)
    /\ emitted.pinch[1].distanceChange = Number(10)

\* C8: the magnitude passed to zoomIn satisfies zoom * canvasHeight = -3 * d,
\* where d is deltaY for the pixel unit, 40 * deltaY for the line unit and
\* 800 * deltaY for the page unit.
C8_ZoomMagnitude ==
    \A i \in 1..Len(wheel.zoomIn) :
        LET unit == CASE wheel.event.deltaMode = 0 -> 1
                      [] wheel.event.deltaMode = 1 -> 40
                      [] wheel.event.deltaMode = 2 -> 800
            d == Times(Number(unit), wheel.event.deltaY)
        IN  Times(wheel.zoomIn[i].zoom, Number(wheel.canvasHeight)) = Times(Number(-3), d)

\* deltaY = 3 in lines on a canvas 600 high is forwarded as zoom -0.6.
C8_Witness ==
    /\ Len(wheel.zoomIn) = 1
    /\ wheel.event = [deltaY |-> Number(3), deltaMode |-> 1]
    /\ wheel.canvasHeight = 600
    /\ wheel.zoomIn[1].zoom = Rat(-3, 5)

\* C9: an observer of active$ never receives two consecutive equal values.
C9_NoRepeatedNotification ==
    \A o \in Observers :
        \A i \in 1..(Len(observers[o].received) - 1) :
            observers[o].received[i] # observers[o].received[i + 1]

\* C10: an observer that has just subscribed to active$ has received at
\* least one value, and the last value it received is the value written to
\* activate$ last (false if none was written).
C10_SubscriberSeesLatest ==
    activeOp.op = "subscribe" =>
        LET received == observers[activeOp.observer].received
        IN  /\ received # <<>>
            /\ received[Len(received)] = activeSubject

\* An observer that subscribed after true was written while no observer was
\* subscribed: it received the replayed false and then true.
C10_Witness ==
    /\ activeOp.op = "subscribe"
    /\ activeSubject = TRUE
    /\ observers[activeOp.observer].received = <<FALSE, TRUE>>

\* C11: while the handler is enabled, every wheel occurrence on the element
\* has preventDefault called on it, whether or not it is forwarded to zoomIn.
C11_AlwaysPrevented ==
    [][(wheel' # wheel /\ Enabled(handler)) => wheel'.defaultPrevented]_vars

\* A wheel occurrence that the activation filter held back from zoomIn and
\* that was suppressed all the same.
C11_Witness ==
    /\ wheel.event # null
    /\ Enabled(handler)
    /\ ~Filtered(env)
    /\ wheel.zoomIn = <<>>
    /\ wheel.defaultPrevented

\* C15: teardown is a unit and idempotent: after _disable() no wheel
\* occurrence is suppressed or forwarded to zoomIn until the next _enable(),
\* and a _disable() that follows a _disable() without an _enable() in between
\* raises no error and leaves the handler as it was.
C15_IdempotentTeardown ==
    [][/\ (wheel' # wheel /\ ~Enabled(handler))
            => (~wheel'.defaultPrevented /\ wheel'.zoomIn = <<>>)
       /\ ~handler'.thrown
       /\ (~Enabled(handler) /\ ~Enabled(handler')) => handler' = handler]_vars

\* A Stop (touchend/touchcancel with no active contact) or a Multi-start
\* (touchstart/touchend/touchcancel with one or more active contacts).
StopOrMultiStart(e) ==
    /\ IsChange(e)
    /\ \/ e.type \in {"touchend", "touchcancel"} /\ Len(e.touches) = 0
       \/ Len(e.touches) >= 1

\* C12: singleTouchMoveEnd$ delivers an occurrence exactly once when it is
\* the first Stop or Multi-start after the occurrence that opened a Single
\* window, and delivers nothing on any other occurrence.
C12_EndOncePerWindow ==
    [][emitted'.singleTouchMoveEnd =
           IF session.single.open /\ StopOrMultiStart(occurrence')
           THEN <<occurrence'>>
           ELSE <<>>]_vars

\* A Single window ended by a touchcancel that still reports one contact,
\* off the target.
C12_Witness ==
    /\ occurrence # null /\ occurrence.type = "touchcancel"
    /\ Len(occurrence.touches) = 1 /\ Len(occurrence.targetTouches) = 0
    /\ emitted.singleTouchMoveEnd = <<occurrence>>
    /\ ~session.single.open

\* C13 as claimed: every occurrence delivered on singleTouchMoveEnd$ ends a
\* Single window in which singleTouchMoveStart$ has delivered exactly one
\* TrackedMovement, also when the window saw no touchmove.
C13_StartBeforeEnd ==
    [][emitted'.singleTouchMoveEnd # <<>> => session.single.starts = 1]_vars

\* C13: singleTouchMoveStart$ delivers one TrackedMovement for a Single
\* window when the window's first touchmove with counts (1,1) arrives,
\* carrying the contact of that touchmove, and nothing on any other
\* occurrence; an occurrence delivered on singleTouchMoveEnd$ follows a
\* delivery on singleTouchMoveStart$ in the same window exactly when the
\* window saw such a touchmove.
C13_StartOnFirstMove ==
    [][/\ IF /\ session.single.open /\ session.single.seen = 0
             /\ IsMove(occurrence') /\ Qualifies(occurrence', 1)
          THEN /\ Len(emitted'.singleTouchMoveStart) = 1
               /\ LET m == emitted'.singleTouchMoveStart[1]
                      touch == occurrence'.touches[1]
                  IN  /\ m.identifier = Number(touch.identifier)
                      /\ m.pageX = Number(touch.pageX)
                      /\ m.pageY = Number(touch.pageY)
          ELSE emitted'.singleTouchMoveStart = <<>>
       /\ emitted'.singleTouchMoveEnd # <<>>
            => /\ session.single.starts <= 1
               /\ session.single.starts = 1 <=> session.single.seen >= 1]_vars

\* A tap: a Stop delivered on singleTouchMoveEnd$ when no touchmove with
\* counts (1,1) has ever been folded, so nothing was delivered on
\* singleTouchMoveStart$ before it.
C13_Witness ==
    /\ occurrence # null /\ touchStop(occurrence)
    /\ emitted.singleTouchMoveEnd = <<occurrence>>
    /\ session.single.before = <<>>

\* C14: every value that an observer of size$ has last received is the size
\* the element had at the most recent resize trigger, the one of
\* construction included.
C14_SizeAtLastTrigger ==
    \A o \in Observers :
        (sizeObservers[o].subscribed /\ sizeObservers[o].received # <<>>)
            => sizeObservers[o].received[Len(sizeObservers[o].received)] = resized

\* The classifications of a touchstart/touchend/touchcancel occurrence that
\* hold of e, Multi-start being the filter multipleTouchStart$.
Classes(e) ==
    {c \in {"single", "pair", "stop", "multi"} :
        \/ c = "single" /\ singleTouchStart(e)
        \/ c = "pair" /\ pinchStart(e)
        \/ c = "stop" /\ touchStop(e)
        \/ c = "multi" /\ multipleTouchStart(e)}

\* C16 as claimed: of Single-qualifying, Pair-qualifying, Stop and Multi-start
\* at most one holds of a touchstart/touchend/touchcancel occurrence (it is
\* ignored when none does), and Multi-start holds only of occurrences with
\* one or more active contacts that are not Single-qualifying.
C16_ExactlyOneClass ==
    IsChange(occurrence) =>
        /\ Cardinality(Classes(occurrence)) <= 1
        /\ multipleTouchStart(occurrence)
            => (Len(occurrence.touches) >= 1 /\ ~singleTouchStart(occurrence))

\* C16: of Single-qualifying, Pair-qualifying and Stop at most one holds of
\* a touchstart/touchend/touchcancel occurrence; Multi-start holds of
\* exactly the occurrences with one or more active contacts, the
\* Single-qualifying and the Pair-qualifying ones included, and never of a
\* Stop; what singleTouchMoveEnd$ delivers is a Stop or a Multi-start.
C16_Classes ==
    IsChange(occurrence) =>
        /\ Cardinality(Classes(occurrence) \ {"multi"}) <= 1
        /\ multipleTouchStart(occurrence) <=> Len(occurrence.touches) >= 1
        /\ ("single" \in Classes(occurrence) \/ "pair" \in Classes(occurrence))
            => "multi" \in Classes(occurrence)
        /\ "stop" \in Classes(occurrence) => "multi" \notin Classes(occurrence)
        /\ emitted.singleTouchMoveEnd # <<>>
            => ("stop" \in Classes(occurrence) \/ "multi" \in Classes(occurrence))

\* A Single-qualifying occurrence that, as a Multi-start, ended the Single
\* window that was open when it arrived.
C16_Witness ==
    /\ IsChange(occurrence)
    /\ Classes(occurrence) = {"single", "multi"}
    /\ emitted.singleTouchMoveEnd = <<occurrence>>
    /\ session.single.open

\* C17 as claimed: in a session that follows a session with touchmoves, the
\* TrackedMovement delivered on singleTouchMoveStart$ carries its page
\* position minus that of the last touchmove folded before the session.
C17_FoldPersists ==
    \A i \in 1..Len(emitted.singleTouchMoveStart) :
        session.single.before # <<>> =>
            LET m == emitted.singleTouchMoveStart[i]
                current == occurrence.touches[1]
                previous == session.single.before[1]
            IN  /\ m.movementX = Number(current.pageX - previous.pageX)
                /\ m.movementY = Number(current.pageY - previous.pageY)

\* C17: the fold starts from the seed in every session: the TrackedMovement
\* delivered on singleTouchMoveStart$ carries its page position minus the
\* undefined page position of the seed, which is NaN, in the first session
\* and in every later one.
C17_FoldRestarts ==
    \A i \in 1..Len(emitted.singleTouchMoveStart) :
        LET m == emitted.singleTouchMoveStart[i]
        IN  /\ m.pageX = Number(occurrence.touches[1].pageX)
            /\ m.pageY = Number(occurrence.touches[1].pageY)
            /\ m.movementX = Minus(m.pageX, undefined) /\ m.movementX = NaN
            /\ m.movementY = Minus(m.pageY, undefined) /\ m.movementY = NaN

\* The first TrackedMovement of a session that follows a session in which a
\* touchmove at another page position was folded.
C17_Witness ==
    /\ Len(emitted.singleTouchMoveStart) = 1
    /\ session.single.before # <<>>
    /\ session.single.before # occurrence.touches
    /\ emitted.singleTouchMoveStart[1].movementX = NaN

\* C18 as claimed: after an occurrence of any type whose counts are not
\* (2,2) the Pair window is closed.
C18_AnyOccurrenceCloses ==
    (occurrence # null /\ ~Qualifies(occurrence, 2)) => ~pinchChangeInner.subscribed

\* C18: after a touchstart/touchend/touchcancel whose counts are not (2,2)
\* the Pair window is closed; a touchmove whose counts are not (2,2) leaves
\* an open Pair window open; pinch$ delivers only in a Pair window opened by
\* a touchstart/touchend/touchcancel with counts (2,2).
C18_ChangeCloses ==
    /\ (IsChange(occurrence) /\ ~Qualifies(occurrence, 2))
        => (~pinchChangeInner.subscribed /\ ~session.pair.open)
    /\ pinchChangeInner.subscribed <=> session.pair.open
    /\ emitted.pinch # <<>> => session.pair.open

\* A Pair window left open by a touchmove that reports one contact, after
\* a two-contact touchmove of the window.
C18_Witness ==
    /\ IsMove(occurrence) /\ ~Qualifies(occurrence, 2)
    /\ pinchChangeInner.subscribed
    /\ session.pair.seen >= 1

\* C20: singleTouchMoveStart$ delivers at most once in a Single window, on
\* the window's first touchmove with counts (1,1) and with its position;
\* whatever singleTouchMove$ delivers comes after that one delivery in the
\* same window; a touchmove with counts (1,1) that arrives while no Single
\* window is open is delivered on neither stream.
C20_StartThenMoves ==
    /\ session.single.starts <= 1
    /\ emitted.singleTouchMoveStart # <<>>
        => /\ session.single.open /\ session.single.seen = 1
           /\ Len(emitted.singleTouchMoveStart) = 1
           /\ emitted.singleTouchMoveStart[1].pageX = Number(session.single.last[1].pageX)
           /\ emitted.singleTouchMoveStart[1].pageY = Number(session.single.last[1].pageY)
    /\ emitted.singleTouchMove # <<>>
        => /\ session.single.open /\ session.single.seen >= 2
           /\ session.single.starts = 1
           /\ emitted.singleTouchMoveStart = <<>>
    /\ (IsMove(occurrence) /\ Qualifies(occurrence, 1) /\ ~session.single.open)
        => (emitted.singleTouchMoveStart = <<>> /\ emitted.singleTouchMove = <<>>)

\* A TrackedMovement delivered on singleTouchMove$ in a window in which
\* singleTouchMoveStart$ has delivered once.
C20_Witness ==
    /\ Len(emitted.singleTouchMove) = 1
    /\ emitted.singleTouchMoveStart = <<>>
    /\ session.single.open /\ session.single.starts = 1

\* C19: an open Single window stays open, and delivers the touchmoves with
\* counts (1,1) after its first, on every occurrence that is not a Stop or a
\* Multi-start, and ends on one that is (a Single-qualifying one opens the
\* next window); an open Pair window stays open on every occurrence that is
\* not a touchstart/touchend/touchcancel with counts other than (2,2), and
\* ends on one that is; when every contact is eventually reported ended or
\* cancelled, an open window is eventually closed.
C19_WindowsEndByEndCondition ==
    /\ [][
           /\ (singleTouchInner.subscribed /\ ~StopOrMultiStart(occurrence'))
                => singleTouchInner'.subscribed
           /\ (singleTouchInner.subscribed /\ StopOrMultiStart(occurrence'))
                => (singleTouchInner'.subscribed <=> Qualifies(occurrence', 1))
           /\ (session.single.open /\ session.single.seen >= 1
                    /\ IsMove(occurrence') /\ Qualifies(occurrence', 1))
                => Len(emitted'.singleTouchMove) = 1
           /\ (pinchChangeInner.subscribed
                    /\ ~(IsChange(occurrence') /\ ~Qualifies(occurrence', 2)))
                => pinchChangeInner'.subscribed
           /\ (pinchChangeInner.subscribed
                    /\ IsChange(occurrence') /\ ~Qualifies(occurrence', 2))
                => ~pinchChangeInner'.subscribed]_vars
    /\ singleTouchInner.subscribed ~> ~singleTouchInner.subscribed
    /\ pinchChangeInner.subscribed ~> ~pinchChangeInner.subscribed

\* A Single window that saw touchmoves and was ended by the report that
\* every contact has ended.
C19_Witness ==
    /\ occurrence # null /\ touchStop(occurrence)
    /\ ~singleTouchInner.subscribed /\ ~pinchChangeInner.subscribed
    /\ emitted.singleTouchMoveEnd = <<occurrence>>
    /\ session.single.before # <<>>

====
